---- MODULE Spec2Model ----
(***************************************************************************)
(* Wire conversion (ProtobufConvert), signature primitive and message      *)
(* builders of witnet-rust, as a state machine whose actions apply one     *)
(* operation to one input and record its outcome.                          *)
(***************************************************************************)
EXTENDS Integers, Sequences, FiniteSets, TLC

VARIABLES ty, op, chain, arg, orig, res, pc

vars == <<ty, op, chain, arg, orig, res, pc>>

(***************************************************************************)
(* Bounds of the model.                                                    *)
(***************************************************************************)
\* longest wire byte sequence handed to a from_pb
MaxWireLen == 34
\* longest Vec<T> converted
MaxVecLen == 2
\* half-width of the windows of wire integers around each range boundary
MaxDelta == 3

(***************************************************************************)
(* Outcomes: Result<T, Error>, and the abort of a failed unwrap / slice.   *)
(***************************************************************************)
Ok(v) == [kind |-> "Ok", val |-> v]

Err(e) == [kind |-> "Err", err |-> e]

Panic(m) == [kind |-> "Panic", msg |-> m]

(***************************************************************************)
(* Integer widths.  An i32 is an integer of -2^31 .. 2^31-1.  A u32 is     *)
(* written as its two 16-bit halves, u32(hi, lo) = hi * 2^16 + lo, and a   *)
(* u64 or i64 as the sequence of its four 16-bit limbs, high limb first.   *)
(***************************************************************************)
u32(hi, lo) == [hi |-> hi, lo |-> lo]

\* a <= b on u32
u32_le(a, b) == a.hi < b.hi \/ (a.hi = b.hi /\ a.lo <= b.lo)

\* u32::from(x) for a u16 x: zero-extended
u32_from_u16(x) == u32(0, x)

i32_min_value == -2147483647 - 1

i32_max_value == 2147483647

i8_max_value == 127

i16_max_value == 32767

u16_max_value == 65535

\* `pb as i8`, `pb as i16` on an i32: keep the low bits, two's complement
as_i8(pb) == (((pb % 256) + 128) % 256) - 128

as_i16(pb) == (((pb % 65536) + 32768) % 65536) - 32768

\* `pb as u16` on a u32: keep the low 16 bits
as_u16(pb) == pb.lo

(***************************************************************************)
(* byteorder: big-endian writes onto a Vec<u8>, reads from a &[u8] cursor. *)
(***************************************************************************)
write_u32_BE(bytes, n) ==
  bytes \o << n.hi \div 256, n.hi % 256, n.lo \div 256, n.lo % 256 >>

\* faulty variant: the port written low byte first
write_u16_LE(bytes, n) == bytes \o << n % 256, (n \div 256) % 256 >>

write_u16_BE(bytes, n) == bytes \o << (n \div 256) % 256, n % 256 >>

\* Ok([val, rest]) or, as io::Error, Err: the caller unwraps
read_u32_BE(bytes) ==
  IF Len(bytes) < 4 THEN Err("failed to fill whole buffer")
  ELSE Ok([val |-> u32(bytes[1] * 256 + bytes[2], bytes[3] * 256 + bytes[4]),
           rest |-> SubSeq(bytes, 5, Len(bytes))])

read_u16_BE(bytes) ==
  IF Len(bytes) < 2 THEN Err("failed to fill whole buffer")
  ELSE Ok([val |-> bytes[1] * 256 + bytes[2],
           rest |-> SubSeq(bytes, 3, Len(bytes))])

\* [0; n].copy_from_slice(src): aborts unless the lengths agree
copy_from_slice(n, src) ==
  IF Len(src) = n THEN Ok(src)
  ELSE Panic("source slice length does not match destination slice length")

(***************************************************************************)
(* impl ProtobufConvert for types::Address                                 *)
(***************************************************************************)
Address_to_pb(self) ==
  LET b0 == <<>>
      b1 == IF self.ip.variant = "Ipv4"
            THEN write_u32_BE(b0, self.ip.ip)
            ELSE write_u32_BE(write_u32_BE(write_u32_BE(write_u32_BE(b0,
                   self.ip.ip0), self.ip.ip1), self.ip.ip2), self.ip.ip3)
  IN  [address |-> write_u16_BE(b1, self.port)]

\* faulty variant: anything from 6 bytes up to 17 is read as an Ipv4 address
Address_from_pb_at_least_6(pb) ==
  LET bytes == pb.address IN
  IF Len(bytes) >= 6 /\ Len(bytes) < 18 THEN
    LET ip == read_u32_BE(bytes) IN
    LET port == read_u16_BE(ip.val.rest) IN
    Ok([ip |-> [variant |-> "Ipv4", ip |-> ip.val.val], port |-> port.val.val])
  ELSE IF Len(bytes) = 18 THEN
    LET ip0 == read_u32_BE(bytes) IN
    LET ip1 == read_u32_BE(ip0.val.rest) IN
    LET ip2 == read_u32_BE(ip1.val.rest) IN
    LET ip3 == read_u32_BE(ip2.val.rest) IN
    LET port == read_u16_BE(ip3.val.rest) IN
    Ok([ip |-> [variant |-> "Ipv6", ip0 |-> ip0.val.val, ip1 |-> ip1.val.val,
                ip2 |-> ip2.val.val, ip3 |-> ip3.val.val],
        port |-> port.val.val])
  ELSE Err("Invalid address size")

Address_from_pb(pb) ==
  LET bytes == pb.address IN
  IF Len(bytes) = 6 THEN
    LET ip == read_u32_BE(bytes) IN
    IF ip.kind # "Ok" THEN Panic("unwrap") ELSE
    LET port == read_u16_BE(ip.val.rest) IN
    IF port.kind # "Ok" THEN Panic("unwrap") ELSE
    Ok([ip |-> [variant |-> "Ipv4", ip |-> ip.val.val], port |-> port.val.val])
  ELSE IF Len(bytes) = 18 THEN
    LET ip0 == read_u32_BE(bytes) IN
    IF ip0.kind # "Ok" THEN Panic("unwrap") ELSE
    LET ip1 == read_u32_BE(ip0.val.rest) IN
    IF ip1.kind # "Ok" THEN Panic("unwrap") ELSE
    LET ip2 == read_u32_BE(ip1.val.rest) IN
    IF ip2.kind # "Ok" THEN Panic("unwrap") ELSE
    LET ip3 == read_u32_BE(ip2.val.rest) IN
    IF ip3.kind # "Ok" THEN Panic("unwrap") ELSE
    LET port == read_u16_BE(ip3.val.rest) IN
    IF port.kind # "Ok" THEN Panic("unwrap") ELSE
    Ok([ip |-> [variant |-> "Ipv6", ip0 |-> ip0.val.val, ip1 |-> ip1.val.val,
                ip2 |-> ip2.val.val, ip3 |-> ip3.val.val],
        port |-> port.val.val])
  ELSE Err("Invalid address size")

(***************************************************************************)
(* impl ProtobufConvert for chain::Signature                               *)
(* wire: [kind |-> "None"] or [kind |-> "s", s |-> [r |-> .., s |-> ..]]   *)
(***************************************************************************)
\* faulty variant: the recovery byte put before s instead of after it
Signature_to_pb_v_first(self) ==
  LET sv == <<self.v>> \o self.s
      x  == [r |-> self.r, s |-> sv]
  IN  [kind |-> "s", s |-> x]

Signature_to_pb(self) ==
  LET sv == self.s \o <<self.v>>
      x  == [r |-> self.r, s |-> sv]
  IN  [kind |-> "s", s |-> x]

\* faulty variant: an s field longer than 33 bytes is accepted and cut
Signature_from_pb_long_s(pb) ==
  IF pb.kind = "s" THEN
    LET vr  == pb.s.r
        vsv == pb.s.s
    IN
    IF Len(vr) = 32 /\ Len(vsv) >= 33 THEN
      Ok([variant |-> "Secp256k1", r |-> vr, s |-> SubSeq(vsv, 1, 32),
          v |-> vsv[33]])
    ELSE Err("Invalid signature byte length")
  ELSE Err("Invalid signature type")

Signature_from_pb(pb) ==
  IF pb.kind = "s" THEN
    LET vr  == pb.s.r
        vsv == pb.s.s
    IN
    IF Len(vr) = 32 /\ Len(vsv) = 33 THEN
      IF Len(vsv) <= 32 THEN Panic("index out of bounds") ELSE
      LET v == vsv[33]
          r == copy_from_slice(32, vr)
          s == copy_from_slice(32, SubSeq(vsv, 1, 32))
      IN
      IF r.kind # "Ok" THEN r ELSE
      IF s.kind # "Ok" THEN s ELSE
      Ok([variant |-> "Secp256k1", r |-> r.val, s |-> s.val, v |-> v])
    ELSE Err("Invalid signature byte length")
  ELSE Err("Invalid signature type")

(***************************************************************************)
(* impl ProtobufConvert for chain::LeadershipProof                         *)
(* Option<T> is <<>> (None) or <<t>> (Some(t)), in both forms.             *)
(***************************************************************************)
LeadershipProof_to_pb(self) ==
  [influence |-> self.influence,
   optional_block_sig |->
     IF self.block_sig # <<>> THEN <<Signature_to_pb(self.block_sig[1])>>
     ELSE <<>>]

\* faulty variant: a signature that does not convert is dropped (`.ok()`)
LeadershipProof_from_pb_drop_bad_sig(pb) ==
  LET influence == pb.influence IN
  IF pb.optional_block_sig # <<>> THEN
    LET sig == Signature_from_pb(pb.optional_block_sig[1]) IN
    IF sig.kind # "Ok" THEN Ok([block_sig |-> <<>>, influence |-> influence])
    ELSE Ok([block_sig |-> <<sig.val>>, influence |-> influence])
  ELSE Ok([block_sig |-> <<>>, influence |-> influence])

LeadershipProof_from_pb(pb) ==
  LET influence == pb.influence IN
  IF pb.optional_block_sig # <<>> THEN
    LET sig == Signature_from_pb(pb.optional_block_sig[1]) IN
    IF sig.kind # "Ok" THEN sig
    ELSE Ok([block_sig |-> <<sig.val>>, influence |-> influence])
  ELSE Ok([block_sig |-> <<>>, influence |-> influence])

(***************************************************************************)
(* impl ProtobufConvert for chain::RADType, String, Vec<u8>, scalars       *)
(***************************************************************************)
RADType_to_pb(self) == self

RADType_from_pb(pb) == Ok(pb)

identity_to_pb(self) == self

identity_from_pb(pb) == Ok(pb)

(***************************************************************************)
(* impl ProtobufConvert for [u8; 20] and [u8; 32]                          *)
(***************************************************************************)
u8x20_to_pb(self) == self

u8x20_from_pb(pb) ==
  IF Len(pb) # 20 THEN Err("Invalid array length")
  ELSE copy_from_slice(20, pb)

u8x32_to_pb(self) == self

u8x32_from_pb(pb) ==
  IF Len(pb) # 32 THEN Err("Invalid array length")
  ELSE copy_from_slice(32, pb)

(***************************************************************************)
(* impl ProtobufConvert for i8, u16, i16                                   *)
(***************************************************************************)
i8_to_pb(self) == self

i8_from_pb(pb) ==
  IF ~(pb <= i8_max_value) THEN Err("Integer out of range")
  ELSE Ok(as_i8(pb))

u16_to_pb(self) == u32_from_u16(self)

u16_from_pb(pb) ==
  IF ~u32_le(pb, u32_from_u16(u16_max_value)) THEN Err("Integer out of range")
  ELSE Ok(as_u16(pb))

i16_to_pb(self) == self

i16_from_pb(pb) ==
  IF ~(pb <= i16_max_value) THEN Err("Integer out of range")
  ELSE Ok(as_i16(pb))

(***************************************************************************)
(* trait ProtobufConvert: dispatch on the implementing type.               *)
(***************************************************************************)
IdentityTypes == {"bool", "u32", "u64", "i32", "i64", "String", "Vec<u8>"}

to_pb(T, self) ==
  CASE T = "Address"         -> Address_to_pb(self)
    [] T = "Signature"       -> Signature_to_pb(self)
    [] T = "LeadershipProof" -> LeadershipProof_to_pb(self)
    [] T = "RADType"         -> RADType_to_pb(self)
    [] T = "[u8; 20]"        -> u8x20_to_pb(self)
    [] T = "[u8; 32]"        -> u8x32_to_pb(self)
    [] T = "i8"              -> i8_to_pb(self)
    [] T = "u16"             -> u16_to_pb(self)
    [] T = "i16"             -> i16_to_pb(self)
    [] T \in IdentityTypes   -> identity_to_pb(self)

from_pb(T, pb) ==
  CASE T = "Address"         -> Address_from_pb(pb)
    [] T = "Signature"       -> Signature_from_pb(pb)
    [] T = "LeadershipProof" -> LeadershipProof_from_pb(pb)
    [] T = "RADType"         -> RADType_from_pb(pb)
    [] T = "[u8; 20]"        -> u8x20_from_pb(pb)
    [] T = "[u8; 32]"        -> u8x32_from_pb(pb)
    [] T = "i8"              -> i8_from_pb(pb)
    [] T = "u16"             -> u16_from_pb(pb)
    [] T = "i16"             -> i16_from_pb(pb)
    [] T \in IdentityTypes   -> identity_from_pb(pb)

(***************************************************************************)
(* impl<T> ProtobufConvert for Vec<T>                                      *)
(***************************************************************************)
Vec_to_pb(T, self) == [i \in 1..Len(self) |-> to_pb(T, self[i])]

\* faulty variant: every element is converted and the last failure is returned
Vec_from_pb_last_error(T, pb) ==
  LET collect[i \in 0..Len(pb)] ==
        IF i = 0 THEN Ok(<<>>)
        ELSE LET acc == collect[i - 1]
                 e   == from_pb(T, pb[i])
             IN  IF e.kind # "Ok" THEN e
                 ELSE IF acc.kind # "Ok" THEN acc
                 ELSE Ok(Append(acc.val, e.val))
  IN  collect[Len(pb)]

\* pb.into_iter().map(from_pb).collect::<Result<Vec<_>, _>>(): the elements
\* are converted in order and the first failure ends the collection
Vec_from_pb(T, pb) ==
  LET collect[i \in 0..Len(pb)] ==
        IF i = 0 THEN Ok(<<>>)
        ELSE LET acc == collect[i - 1] IN
             IF acc.kind # "Ok" THEN acc
             ELSE LET e == from_pb(T, pb[i]) IN
                  IF e.kind # "Ok" THEN e ELSE Ok(Append(acc.val, e.val))
  IN  collect[Len(pb)]

(***************************************************************************)
(* crypto::signature over secp256k1.  The curve arithmetic is abstract: a  *)
(* signature names the secret key and the message it was made from, and    *)
(* it verifies exactly under that key's public key and that message.       *)
(***************************************************************************)
\* secp256k1::Message::from_slice: a message is exactly 32 bytes
Message_from_slice(data) ==
  IF Len(data) = 32 THEN Ok(data) ELSE Err("InvalidMessage")

PublicKey_from_secret_key(secret_key) == [of |-> secret_key]

secp_sign(msg, secret_key) == [signer |-> secret_key, msg |-> msg]

secp_verify(msg, sig, public_key) ==
  IF sig.signer = public_key.of /\ sig.msg = msg THEN Ok(<<>>)
  ELSE Err("IncorrectSignature")

SignatureError_VerifyError == Err("VerifyError")

sign(secret_key, data) ==
  LET msg == Message_from_slice(data) IN
  IF msg.kind # "Ok" THEN Panic("unwrap")
  ELSE Ok(secp_sign(msg.val, secret_key))

verify(public_key, data, sig) ==
  LET msg == Message_from_slice(data) IN
  IF msg.kind # "Ok" THEN Panic("unwrap")
  ELSE LET r == secp_verify(msg.val, sig, public_key) IN
       IF r.kind = "Ok" THEN r ELSE SignatureError_VerifyError

(***************************************************************************)
(* Message builders.  to_address turns a socket address (octets or         *)
(* segments in network order, and a port) into an Address.                 *)
(***************************************************************************)
to_address(socket_addr) ==
  IF socket_addr.variant = "V4" THEN
    LET o == socket_addr.octets IN
    [ip |-> [variant |-> "Ipv4",
             ip |-> u32(o[1] * 256 + o[2], o[3] * 256 + o[4])],
     port |-> socket_addr.port]
  ELSE
    LET g == socket_addr.segments IN
    [ip |-> [variant |-> "Ipv6",
             ip0 |-> u32(g[1], g[2]), ip1 |-> u32(g[3], g[4]),
             ip2 |-> u32(g[5], g[6]), ip3 |-> u32(g[7], g[8])],
     port |-> socket_addr.port]

Message(magic, cmd, payload) ==
  [magic |-> magic, kind |-> [cmd |-> cmd, payload |-> payload]]

build_last_beacon(magic, highest_block_checkpoint) ==
  Message(magic, "LastBeacon",
          [highest_block_checkpoint |-> highest_block_checkpoint])

build_block(magic, block_header, proof, txns) ==
  Message(magic, "Block",
          [block_header |-> block_header, proof |-> proof, txns |-> txns])

build_transaction(magic, txn) == Message(magic, "Transaction", txn)

build_get_peers(magic) == Message(magic, "GetPeers", <<>>)

\* faulty variant: the peers collected in reverse order
build_peers_reversed(magic, sock_addresses) ==
  Message(magic, "Peers",
          [peers |-> [i \in 1..Len(sock_addresses) |->
                        to_address(sock_addresses[Len(sock_addresses) + 1 - i])]])

build_peers(magic, sock_addresses) ==
  Message(magic, "Peers",
          [peers |-> [i \in 1..Len(sock_addresses) |->
                        to_address(sock_addresses[i])]])

\* the nonce is drawn at random by the builder: `random_nonce` is that draw
build_ping(magic, random_nonce) ==
  Message(magic, "Ping", [nonce |-> random_nonce])

build_pong(magic, nonce) == Message(magic, "Pong", [nonce |-> nonce])

PROTOCOL_VERSION == "PROTOCOL_VERSION"

CAPABILITIES == "CAPABILITIES"

USER_AGENT == "USER_AGENT"

\* `current_timestamp` and `random_nonce` are the builder's clock and draw
build_version(magic, sender_addr, receiver_addr, last_epoch, current_timestamp, random_nonce) ==
  Message(magic, "Version",
          [version |-> PROTOCOL_VERSION, timestamp |-> current_timestamp,
           capabilities |-> CAPABILITIES,
           sender_address |-> to_address(sender_addr),
           receiver_address |-> to_address(receiver_addr),
           user_agent |-> USER_AGENT, last_epoch |-> last_epoch,
           nonce |-> random_nonce])

build_verack(magic) == Message(magic, "Verack", <<>>)

build_inventory_announcement(magic, inv_entries) ==
  Ok(Message(magic, "InventoryAnnouncement", [inventory |-> inv_entries]))

build_inventory_request(magic, inv_entries) ==
  Ok(Message(magic, "InventoryRequest", [inventory |-> inv_entries]))

(***************************************************************************)
(* The values the operations are applied to.                               *)
(***************************************************************************)
\* the byte sequence b, b+k, b+2k, ... of length n
pattern(n, b, k) == [i \in 1..n |-> (b + k * (i - 1)) % 256]

ByteSeqs(lens, bases, steps) ==
  { pattern(n, b, k) : n \in lens, b \in bases, k \in steps }

SeqsUpTo(S, n) == UNION { [1..k -> S] : k \in 0..n }

\* the integers of lo..hi within MaxDelta of c
Window(c, lo, hi) ==
  LET down == IF c <= lo + MaxDelta THEN c - lo ELSE MaxDelta
      up   == IF c >= hi - MaxDelta THEN hi - c ELSE MaxDelta
  IN  { c + d : d \in (0 - down)..up }

\* 0, 1, 0x01020304, 3232235777 (192.168.1.1) and 2^32 - 1
U32Samples ==
  {u32(0, 0), u32(0, 1), u32(258, 772), u32(49320, 257), u32(65535, 65535)}

\* 0, 1, 2^63 (i64::MIN as an i64) and 2^64 - 1 (-1 as an i64)
U64Samples ==
  {<<0, 0, 0, 0>>, <<0, 0, 0, 1>>, <<32768, 0, 0, 0>>,
   <<65535, 65535, 65535, 65535>>}

Ports == {0, 8000, 65535}

Addresses ==
  { [ip |-> [variant |-> "Ipv4", ip |-> a], port |-> p] :
      a \in U32Samples, p \in Ports }
  \cup
  { [ip |-> [variant |-> "Ipv6", ip0 |-> q[1], ip1 |-> q[2],
             ip2 |-> q[3], ip3 |-> q[4]], port |-> p] :
      q \in [1..4 -> {u32(0, 0), u32(258, 772), u32(65535, 65535)}],
      p \in Ports }

Signatures ==
  { [variant |-> "Secp256k1", r |-> r, s |-> s, v |-> v] :
      r \in ByteSeqs({32}, {0, 171}, {0, 1}),
      s \in ByteSeqs({32}, {0, 205}, {0, 1}),
      v \in {0, 1, 255} }

LeadershipProofs ==
  { [block_sig |-> b, influence |-> n] :
      b \in {<<>>} \cup { <<g>> : g \in Signatures }, n \in U64Samples }

\* i32 values around the bounds of i8, i16 and i32, and around 0
I32Wire ==
  UNION { Window(c, i32_min_value, i32_max_value) :
            c \in {i32_min_value, -32768, -128, 0, 127, 32767, i32_max_value} }

\* u32 values around 0, the u16 bound and the u32 bound, and with the low
\* half of an in-range value under a non-zero high half
U32Wire ==
  { u32(0, lo) : lo \in Window(0, 0, 65535) \cup Window(65535, 0, 65535) }
  \cup { u32(hi, lo) : hi \in {1, 2, 65535},
                       lo \in Window(0, 0, 65535) \cup Window(65535, 0, 65535) }

SignatureWires ==
  { [kind |-> "None"] }
  \cup
  { [kind |-> "s", s |-> [r |-> r, s |-> sv]] :
      r \in ByteSeqs(0..MaxWireLen, {171}, {0, 1}),
      sv \in ByteSeqs(0..MaxWireLen, {205}, {0, 1}) }

\* the signatures a wire leadership proof is tried with: no kind, and
\* r and s fields one short of, at, and one over their lengths
ProofSignatureWires ==
  { [kind |-> "None"] }
  \cup
  { [kind |-> "s", s |-> [r |-> r, s |-> sv]] :
      r \in ByteSeqs(31..33, {171}, {1}), sv \in ByteSeqs(32..34, {205}, {1}) }

Types ==
  {"Address", "Signature", "LeadershipProof", "RADType", "[u8; 20]",
   "[u8; 32]", "i8", "u16", "i16"} \cup IdentityTypes

\* the values of the implementing type
Dom(T) ==
  CASE T = "Address"         -> Addresses
    [] T = "Signature"       -> Signatures
    [] T = "LeadershipProof" -> LeadershipProofs
    [] T = "RADType"         -> {"HttpGet"}
    [] T = "[u8; 20]"        -> ByteSeqs({20}, {0, 171, 255}, {0, 1, 7})
    [] T = "[u8; 32]"        -> ByteSeqs({32}, {0, 171, 255}, {0, 1, 7})
    [] T = "i8"              -> -128..127
    [] T = "u16"             -> Window(0, 0, 65535) \cup Window(65535, 0, 65535)
    [] T = "i16"             -> { w \in I32Wire : -32768 <= w /\ w <= 32767 }
    [] T = "bool"            -> {TRUE, FALSE}
    [] T = "u32"             -> U32Wire
    [] T = "u64"             -> U64Samples
    [] T = "i32"             -> I32Wire
    [] T = "i64"             -> U64Samples
    [] T = "String"          -> {"", "witnet"}
    [] T = "Vec<u8>"         -> ByteSeqs(0..MaxWireLen, {171}, {1})

\* the values of its ProtoStruct
Wire(T) ==
  CASE T = "Address" ->
         { [address |-> b] :
             b \in ByteSeqs(0..MaxWireLen, {0, 192}, {0, 1})
                   \cup {<<192, 168, 1, 1, 31, 64>>,
                         <<192, 168, 1, 1, 31, 64, 0>>} }
    [] T = "Signature" -> SignatureWires
    [] T = "LeadershipProof" ->
         { [influence |-> n, optional_block_sig |-> b] :
             n \in U64Samples,
             b \in {<<>>} \cup { <<g>> : g \in ProofSignatureWires } }
    [] T = "[u8; 20]" -> ByteSeqs(0..MaxWireLen, {0, 171}, {0, 1})
    [] T = "[u8; 32]" -> ByteSeqs(0..MaxWireLen, {0, 171}, {0, 1})
    [] T \in {"i8", "i16"} -> I32Wire
    [] T = "u16" -> U32Wire
    [] OTHER -> Dom(T)

VecTypes == {"Signature", "Address", "i8", "[u8; 20]"}

\* the elements the sequences are made of
VecElemDom(T) ==
  CASE T = "Signature" ->
         { [variant |-> "Secp256k1", r |-> pattern(32, b, 1),
            s |-> pattern(32, b, 0), v |-> 1] : b \in {0, 171} }
    [] T = "Address" ->
         { [ip |-> [variant |-> "Ipv4", ip |-> u32(49320, 257)],
            port |-> 8000],
           [ip |-> [variant |-> "Ipv6", ip0 |-> u32(0, 1), ip1 |-> u32(0, 2),
                    ip2 |-> u32(3, 0), ip3 |-> u32(65535, 4)],
            port |-> 65535] }
    [] T = "i8" -> {-128, -1, 127}
    [] T = "[u8; 20]" -> ByteSeqs({20}, {0, 171}, {1})

VecElemWire(T) ==
  CASE T = "Signature" ->
         { [kind |-> "None"],
           [kind |-> "s", s |-> [r |-> pattern(31, 171, 1),
                                 s |-> pattern(33, 205, 1)]],
           [kind |-> "s", s |-> [r |-> pattern(32, 171, 1),
                                 s |-> pattern(33, 205, 1)]],
           [kind |-> "s", s |-> [r |-> pattern(32, 0, 1),
                                 s |-> pattern(33, 0, 0)]] }
    [] T = "Address" ->
         { [address |-> b] : b \in ByteSeqs({6, 7, 18}, {192}, {0, 1}) }
    [] T = "i8" -> {-129, -128, 0, 127, 128}
    [] T = "[u8; 20]" -> ByteSeqs({19, 20, 21}, {171}, {0, 1})

SecretKeys == {"sk_cd", "sk_01"}

PublicKeys == { PublicKey_from_secret_key(k) : k \in SecretKeys }

Datas == ByteSeqs(0..MaxWireLen, {171, 0}, {0})

CryptoSignatures ==
  { secp_sign(m, k) : m \in ByteSeqs({32}, {171, 0}, {0}), k \in SecretKeys }

Magics == {0, 43981, 65535}

Nonces == U64Samples

SocketAddrs ==
  { [variant |-> "V4", octets |-> o, port |-> p] :
      o \in {<<192, 168, 1, 1>>, <<192, 168, 1, 2>>, <<0, 0, 0, 0>>},
      p \in {8000, 8001} }
  \cup
  { [variant |-> "V6", segments |-> <<8193, 3512, 0, 0, 0, 0, 0, g>>,
     port |-> 8000] : g \in {1, 65535} }

CheckpointBeacons ==
  { [checkpoint |-> c, hash_prev_block |-> h] :
      c \in {0, 1234}, h \in ByteSeqs({32}, {0, 1}, {0}) }

Transactions == {"transaction_example", "transaction_other"}

BlockHeaders ==
  { [version |-> 1, beacon |-> b, hash_merkle_root |-> pattern(32, 0, 0)] :
      b \in CheckpointBeacons }

InventoryEntries ==
  { [tag |-> t, hash |-> h] :
      t \in {"Tx", "Block"}, h \in ByteSeqs({32}, {1, 2}, {0}) }

(***************************************************************************)
(* The state: one call, op of implementation ty on the argument arg, and   *)
(* its outcome res once it has returned (pc = "done").  chain = "input"    *)
(* when the argument was handed in by a caller (orig = arg); chain =       *)
(* "roundtrip" when it is the outcome of the opposite conversion, applied  *)
(* to orig.                                                                *)
(***************************************************************************)
Request(T, o, x) ==
  /\ ty = T
  /\ op = o
  /\ arg = x
  /\ orig = x
  /\ chain = "input"
  /\ pc = "call"
  /\ res = <<>>

Init ==
  \/ \E T \in Types : \E x \in Dom(T) : Request(T, "to_pb", x)
  \/ \E T \in Types : \E w \in Wire(T) : Request(T, "from_pb", w)
  \/ \E T \in VecTypes : \E v \in SeqsUpTo(VecElemDom(T), MaxVecLen) :
       Request(T, "Vec::to_pb", v)
  \/ \E T \in VecTypes : \E w \in SeqsUpTo(VecElemWire(T), MaxVecLen) :
       Request(T, "Vec::from_pb", w)
  \/ \E k \in SecretKeys : \E d \in Datas :
       Request("secp256k1", "sign", [secret_key |-> k, data |-> d])
  \/ \E pk \in PublicKeys : \E d \in Datas : \E g \in CryptoSignatures :
       Request("secp256k1", "verify",
               [public_key |-> pk, data |-> d, sig |-> g])
  \/ \E m \in Magics : \E b \in CheckpointBeacons :
       Request("Message", "build_last_beacon",
               [magic |-> m, highest_block_checkpoint |-> b])
  \/ \E m \in Magics : \E h \in BlockHeaders :
     \E f \in { [block_sig |-> <<>>, influence |-> n] : n \in U64Samples } :
     \E t \in SeqsUpTo(Transactions, MaxVecLen) :
       Request("Message", "build_block",
               [magic |-> m, block_header |-> h, proof |-> f, txns |-> t])
  \/ \E m \in Magics : \E t \in Transactions :
       Request("Message", "build_transaction", [magic |-> m, txn |-> t])
  \/ \E m \in Magics : \E o \in {"build_get_peers", "build_ping",
                                "build_verack"} :
       Request("Message", o, [magic |-> m])
  \/ \E m \in Magics : \E a \in SeqsUpTo(SocketAddrs, MaxVecLen) :
       Request("Message", "build_peers", [magic |-> m, sock_addresses |-> a])
  \/ \E m \in Magics : \E n \in Nonces :
       Request("Message", "build_pong", [magic |-> m, nonce |-> n])
  \/ \E m \in Magics : \E a \in SocketAddrs : \E b \in SocketAddrs :
     \E e \in {0, 1234} :
       Request("Message", "build_version",
               [magic |-> m, sender_addr |-> a, receiver_addr |-> b,
                last_epoch |-> e])
  \/ \E m \in Magics : \E v \in SeqsUpTo(InventoryEntries, MaxVecLen) :
     \E o \in {"build_inventory_announcement", "build_inventory_request"} :
       Request("Message", o, [magic |-> m, inv_entries |-> v])

\* the call op returns r
Return(o, r) ==
  /\ pc = "call"
  /\ op = o
  /\ res' = r
  /\ pc' = "done"
  /\ UNCHANGED <<ty, op, chain, arg, orig>>

DoToPb == Return("to_pb", to_pb(ty, arg))

DoFromPb == Return("from_pb", from_pb(ty, arg))

DoVecToPb == Return("Vec::to_pb", Vec_to_pb(ty, arg))

DoVecFromPb == Return("Vec::from_pb", Vec_from_pb(ty, arg))

\* the wire form just produced is handed to from_pb
DecodeEncoded ==
  /\ pc = "done"
  /\ chain = "input"
  /\ op \in {"to_pb", "Vec::to_pb"}
  /\ ty' = ty
  /\ op' = IF op = "to_pb" THEN "from_pb" ELSE "Vec::from_pb"
  /\ chain' = "roundtrip"
  /\ arg' = res
  /\ orig' = arg
  /\ res' = <<>>
  /\ pc' = "call"

\* the value just decoded is handed to to_pb
EncodeDecoded ==
  /\ pc = "done"
  /\ chain = "input"
  /\ op \in {"from_pb", "Vec::from_pb"}
  /\ res.kind = "Ok"
  /\ ty' = ty
  /\ op' = IF op = "from_pb" THEN "to_pb" ELSE "Vec::to_pb"
  /\ chain' = "roundtrip"
  /\ arg' = res.val
  /\ orig' = arg
  /\ res' = <<>>
  /\ pc' = "call"

DoSign == Return("sign", sign(arg.secret_key, arg.data))

DoVerify == Return("verify", verify(arg.public_key, arg.data, arg.sig))

DoBuildLastBeacon ==
  Return("build_last_beacon",
         build_last_beacon(arg.magic, arg.highest_block_checkpoint))

DoBuildBlock ==
  Return("build_block",
         build_block(arg.magic, arg.block_header, arg.proof, arg.txns))

DoBuildTransaction ==
  Return("build_transaction", build_transaction(arg.magic, arg.txn))

DoBuildGetPeers == Return("build_get_peers", build_get_peers(arg.magic))

DoBuildPeers ==
  Return("build_peers", build_peers(arg.magic, arg.sock_addresses))

DoBuildPing ==
  \E n \in Nonces : Return("build_ping", build_ping(arg.magic, n))

DoBuildPong == Return("build_pong", build_pong(arg.magic, arg.nonce))

DoBuildVersion ==
  \E t \in {0, 1234} : \E n \in Nonces :
    Return("build_version",
           build_version(arg.magic, arg.sender_addr, arg.receiver_addr,
                         arg.last_epoch, t, n))

DoBuildVerack == Return("build_verack", build_verack(arg.magic))

DoBuildInventoryAnnouncement ==
  Return("build_inventory_announcement",
         build_inventory_announcement(arg.magic, arg.inv_entries))

DoBuildInventoryRequest ==
  Return("build_inventory_request",
         build_inventory_request(arg.magic, arg.inv_entries))

Next ==
  \/ DoToPb
  \/ DoFromPb
  \/ DoVecToPb
  \/ DoVecFromPb
  \/ DecodeEncoded
  \/ EncodeDecoded
  \/ DoSign
  \/ DoVerify
  \/ DoBuildLastBeacon
  \/ DoBuildBlock
  \/ DoBuildTransaction
  \/ DoBuildGetPeers
  \/ DoBuildPeers
  \/ DoBuildPing
  \/ DoBuildPong
  \/ DoBuildVersion
  \/ DoBuildVerack
  \/ DoBuildInventoryAnnouncement
  \/ DoBuildInventoryRequest

Spec == Init /\ [][Next]_vars

(***************************************************************************)
(* Properties.                                                             *)
(***************************************************************************)
Returned(o) == pc = "done" /\ op = o

IsByte(b) == b \in 0..255

\* C1: round trip.  Converting a value of an implementing type (or a
\* sequence of such values) to its wire form and that wire form back
\* succeeds and gives the value started from.
C1_RoundTrip ==
  (pc = "done" /\ chain = "roundtrip" /\ op \in {"from_pb", "Vec::from_pb"})
    => res = Ok(orig)

C1_Witness ==
  /\ Returned("from_pb")
  /\ chain = "roundtrip"
  /\ ty = "LeadershipProof"
  /\ orig.block_sig # <<>>
  /\ orig.block_sig[1].v = 255
  /\ res.kind = "Ok"

\* C2: range enforcement.  from_pb of a narrow integer type (i8, i16 from
\* an i32; u16 from a u32) fails on every wire value outside the type's
\* range and otherwise succeeds with the number it was given.
C2_RangeEnforcement ==
  (Returned("from_pb") /\ ty \in {"i8", "i16", "u16"}) =>
    CASE ty = "i8" ->
           IF -128 <= arg /\ arg <= 127 THEN res = Ok(arg)
           ELSE res.kind = "Err"
      [] ty = "i16" ->
           IF -32768 <= arg /\ arg <= 32767 THEN res = Ok(arg)
           ELSE res.kind = "Err"
      [] ty = "u16" ->
           IF arg.hi = 0 THEN res = Ok(arg.lo) ELSE res.kind = "Err"

\* C3: length enforcement.  from_pb of [u8; 20] (of [u8; 32]) fails on
\* every byte sequence whose length is not 20 (32); from_pb of a Signature
\* fails unless r has 32 bytes and s has 33.  With the right lengths it
\* succeeds and holds exactly the bytes given: r, the first 32 bytes of s,
\* and its 33rd byte as v.
C3_LengthEnforcement ==
  Returned("from_pb") =>
    /\ ty = "[u8; 20]" =>
         IF Len(arg) = 20 THEN res = Ok(arg) ELSE res.kind = "Err"
    /\ ty = "[u8; 32]" =>
         IF Len(arg) = 32 THEN res = Ok(arg) ELSE res.kind = "Err"
    /\ ty = "Signature" =>
         IF arg.kind = "s" /\ Len(arg.s.r) = 32 /\ Len(arg.s.s) = 33
         THEN /\ res.kind = "Ok"
              /\ res.val.r = arg.s.r
              /\ res.val.s = [i \in 1..32 |-> arg.s.s[i]]
              /\ res.val.v = arg.s.s[33]
         ELSE res.kind = "Err"

C3_Witness ==
  /\ Returned("from_pb")
  /\ chain = "input"
  /\ ty = "Signature"
  /\ arg.kind = "s"
  /\ Len(arg.s.r) = 32
  /\ Len(arg.s.s) = 34
  /\ res = Err("Invalid signature byte length")

\* C4: Address::from_pb gives an Ipv4 address exactly on 6 bytes, an Ipv6
\* address exactly on 18 bytes, and an error, never an abort, on every
\* other length.
C4_AddressLengths ==
  (Returned("from_pb") /\ ty = "Address") =>
    /\ (res.kind = "Ok" /\ res.val.ip.variant = "Ipv4")
         <=> Len(arg.address) = 6
    /\ (res.kind = "Ok" /\ res.val.ip.variant = "Ipv6")
         <=> Len(arg.address) = 18
    /\ Len(arg.address) \notin {6, 18} => res.kind = "Err"
    /\ res.kind # "Panic"

C4_Witness ==
  /\ Returned("from_pb")
  /\ ty = "Address"
  /\ arg.address = <<192, 168, 1, 1, 31, 64, 0>>
  /\ res = Err("Invalid address size")

\* C5: Address::to_pb gives 6 bytes for Ipv4, the ip big-endian then the
\* port big-endian, and 18 bytes for Ipv6, ip0, ip1, ip2, ip3 big-endian in
\* that order then the port big-endian; no other length.
C5_AddressLayout ==
  (Returned("to_pb") /\ ty = "Address") =>
    LET b == res.address
        be16(i) == b[i] * 256 + b[i + 1]
        be32(i) == u32(be16(i), be16(i + 2))
    IN
    /\ \A i \in 1..Len(b) : IsByte(b[i])
    /\ Len(b) \in {6, 18}
    /\ arg.ip.variant = "Ipv4" =>
         /\ Len(b) = 6
         /\ be32(1) = arg.ip.ip
         /\ be16(5) = arg.port
    /\ arg.ip.variant = "Ipv6" =>
         /\ Len(b) = 18
         /\ be32(1) = arg.ip.ip0
         /\ be32(5) = arg.ip.ip1
         /\ be32(9) = arg.ip.ip2
         /\ be32(13) = arg.ip.ip3
         /\ be16(17) = arg.port

C5_Witness ==
  /\ Returned("to_pb")
  /\ ty = "Address"
  /\ chain = "input"
  /\ arg = [ip |-> [variant |-> "Ipv4", ip |-> u32(49320, 257)],
            port |-> 8000]
  /\ res.address = <<192, 168, 1, 1, 31, 64>>

\* C6: verify returns Ok(()) or VerifyError for every public key, signature
\* and data, data not 32 bytes long included; it never aborts.
C6_VerifyNeverAborts ==
  Returned("verify") => res \in {Ok(<<>>), SignatureError_VerifyError}

C8_VecElementwise ==
  /\ Returned("Vec::to_pb") =>
       /\ Len(res) = Len(arg)
       /\ \A i \in 1..Len(arg) : res[i] = to_pb(ty, arg[i])
  /\ Returned("Vec::from_pb") =>
       LET bad == { i \in 1..Len(arg) : from_pb(ty, arg[i]).kind # "Ok" } IN
       IF bad = {}
       THEN /\ res.kind = "Ok"
            /\ Len(res.val) = Len(arg)
            /\ \A i \in 1..Len(arg) : Ok(res.val[i]) = from_pb(ty, arg[i])
       ELSE LET first == CHOOSE i \in bad : \A j \in bad : i <= j IN
            /\ res.kind = "Err"
            /\ res = from_pb(ty, arg[first])

C8_Witness ==
  /\ Returned("Vec::from_pb")
  /\ ty = "Signature"
  /\ Len(arg) = 2
  /\ res = Err("Invalid signature byte length")
  /\ from_pb(ty, arg[2]) = Err("Invalid signature type")

\* C9: LeadershipProof::from_pb with no block_sig succeeds with block_sig
\* None and the influence unchanged; with a block_sig it succeeds with
\* Some(sig) exactly when that signature has a kind, 32 bytes of r and 33
\* of s, and otherwise fails with the signature's error.  to_pb sets
\* block_sig exactly when block_sig is Some.
C9_OptionalBlockSig ==
  (pc = "done" /\ ty = "LeadershipProof") =>
    /\ op = "from_pb" =>
         IF arg.optional_block_sig = <<>>
         THEN res = Ok([block_sig |-> <<>>, influence |-> arg.influence])
         ELSE LET w == arg.optional_block_sig[1] IN
              IF w.kind = "s" /\ Len(w.s.r) = 32 /\ Len(w.s.s) = 33
              THEN /\ res.kind = "Ok"
                   /\ res.val.influence = arg.influence
                   /\ Len(res.val.block_sig) = 1
                   /\ Ok(res.val.block_sig[1]) = Signature_from_pb(w)
              ELSE /\ res.kind = "Err"
                   /\ res = Signature_from_pb(w)
    /\ op = "to_pb" =>
         /\ (res.optional_block_sig # <<>>) <=> (arg.block_sig # <<>>)
         /\ res.influence = arg.influence

C9_Witness ==
  /\ Returned("from_pb")
  /\ ty = "LeadershipProof"
  /\ arg.optional_block_sig = << [kind |-> "None"] >>
  /\ res = Err("Invalid signature type")

\* C10: decoding is lossless.  For every wire value from_pb accepts, to_pb
\* of the decoded value is that wire value again (Address, Signature,
\* [u8; 20], [u8; 32], i8, u16, i16).
C10_DecodeLossless ==
  (pc = "done" /\ chain = "roundtrip" /\ op = "to_pb"
     /\ ty \in {"Address", "Signature", "[u8; 20]", "[u8; 32]", "i8", "u16",
                "i16"})
    => res = orig

====
